---- MODULE Spec2Model ----
(***************************************************************************)
(* A model of the connectivity checker (src/connectivity-checker/app/      *)
(* main.py): the config materialiser (load_yaml, materialise_checks), the  *)
(* probe executors (run_ping, run_http), the result emitter (log_record),  *)
(* the per-node scheduler (run_checks_for_node) and main; and of the poll   *)
(* loop of the hub poller (src/hub-poller/app/main.py).                    *)
(*                                                                         *)
(* Strings are sequences of tokens (Text), so that textual substitution,   *)
(* substring search, trimming and slicing are computed, not assumed.       *)
(* A placeholder such as ${ADDRESS} is one token.  A Python Optional is    *)
(* None (== [has |-> FALSE]) or Some(v).  A field that the code only ever  *)
(* reads through "x or y" is absent or empty alike, and is the empty Text  *)
(* when absent.                                                            *)
(***************************************************************************)
EXTENDS Integers, Sequences, FiniteSets, TLC

VARIABLES
    \* ---- main / materialise_checks ----
    environ,        \* os.environ, restricted to the variables the files name
    disk,           \* the profiles directory and the template override file
    mainPc,         \* where main() is
    node,           \* the inventory entry the for loop of materialise_checks is at
    nodeCount,      \* how many inventory entries the generator has consumed
    profiles_cache, \* materialise_checks' profiles_cache
    reads,          \* per file, how many times load_yaml read it (history)
    loopTasks,      \* main's tasks: one entry per yielded NodeChecks
    lastYield,      \* what the current entry made the generator do (history)
    nodes,          \* the inventory entries the for loop has gone through (history)
    mainOut,        \* the records main itself wrote with log_record (history)
    \* ---- run_checks_for_node, one loop per node ----
    node_checks,    \* the NodeChecks each loop was created with
    pc,             \* where each loop is
    tasks,          \* the probe tasks of the current batch
    doneQ,          \* as_completed's queue of finished tasks, oldest first
    batchOut,       \* the records log_record wrote in the current cycle (history)
    finished,       \* the tasks of the current batch in the order they finished (history)
    atCancel,       \* per loop, the tasks that had finished when it was cancelled (history)
    \* ---- run_http and run_ping, called on their own ----
    httpCall,
    pingCall,
    \* ---- the hub poller (src/hub-poller/app/main.py) ----
    hubs,           \* the names of the hubs load_hubs returned
    hubPc,          \* where main_async is
    hubPoll,        \* per hub, where its poll_hub of the current cycle is
    hubOut          \* the lines printed in the current cycle (history)

matVars == <<environ, disk, mainPc, node, nodeCount, profiles_cache, reads,
             loopTasks, lastYield, nodes, mainOut>>
schedVars == <<node_checks, pc, tasks, doneQ, batchOut, finished, atCancel>>
callVars == <<httpCall, pingCall>>
hubVars == <<hubs, hubPc, hubPoll, hubOut>>
vars == <<matVars, schedVars, callVars, hubVars>>

----------------------------------------------------------------------------
(* Python values *)

None == [has |-> FALSE]
Some(v) == [has |-> TRUE, v |-> v]

\* Python truthiness of a str.
Truthy(text) == text # <<>>

\* Python's "a or b" on two str values.
Or(a, b) == IF Truthy(a) THEN a ELSE b

Min(a, b) == IF a < b THEN a ELSE b

----------------------------------------------------------------------------
(* Text *)

WS == " "

RECURSIVE LStrip(_)
LStrip(text) ==
    IF text # <<>> /\ Head(text) = WS THEN LStrip(Tail(text)) ELSE text

RECURSIVE RStrip(_)
RStrip(text) ==
    IF text # <<>> /\ text[Len(text)] = WS
    THEN RStrip(SubSeq(text, 1, Len(text) - 1))
    ELSE text

\* str.strip()
Strip(text) == RStrip(LStrip(text))

\* str.replace(tok, repl): every occurrence, the replacement is not rescanned.
RECURSIVE Replace(_, _, _)
Replace(text, tok, repl) ==
    IF text = <<>> THEN <<>>
    ELSE (IF Head(text) = tok THEN repl ELSE <<Head(text)>>)
         \o Replace(Tail(text), tok, repl)

\* "sub in text"
Contains(text, sub) ==
    \E i \in 0..(Len(text) - Len(sub)) : SubSeq(text, i + 1, i + Len(sub)) = sub

\* text[:n]
Take(text, n) == SubSeq(text, 1, Min(n, Len(text)))

ADDRESS_PH == "${ADDRESS}"
NETWORKNODE_IP_PH == "${NETWORKNODE_IP}"

\* The tokens the pattern \$\{([^}]+)\} matches, and group(1) of each.
PlaceholderVar(tok) ==
    CASE tok = ADDRESS_PH -> "ADDRESS"
      [] tok = NETWORKNODE_IP_PH -> "NETWORKNODE_IP"
      [] OTHER -> ""

\* os.environ.get(var_name, match.group(0)) for one match.
expand_var(tok, env) ==
    LET var_name == PlaceholderVar(tok) IN
    IF var_name = "ADDRESS" /\ env.ADDRESS.has THEN env.ADDRESS.v
    ELSE IF var_name = "NETWORKNODE_IP" /\ env.NETWORKNODE_IP.has
         THEN env.NETWORKNODE_IP.v
    ELSE <<tok>>

\* re.sub(r'\$\{([^}]+)\}', expand_var, text)
RECURSIVE ExpandVars(_, _)
ExpandVars(text, env) ==
    IF text = <<>> THEN <<>>
    ELSE expand_var(Head(text), env) \o ExpandVars(Tail(text), env)

----------------------------------------------------------------------------
(* load_yaml and the structured documents *)

\* The two substitutions of load_yaml the other way round: the environment
\* first, then extra_env.
LoadTextEnvFirst(text, extra_env, env) ==
    LET expanded == ExpandVars(text, env) IN
    IF extra_env.has THEN Replace(expanded, ADDRESS_PH, extra_env.v)
    ELSE expanded

\* load_yaml on one string of the file: first the extra_env substitutions
\* (extra_env is None or {"ADDRESS": v}), then the environment's.
LoadText(text, extra_env, env) ==
    ExpandVars(IF extra_env.has THEN Replace(text, ADDRESS_PH, extra_env.v)
               ELSE text,
               env)

LoadOptText(opt, extra_env, env) ==
    IF opt.has THEN Some(LoadText(opt.v, extra_env, env)) ELSE opt

\* A profile or template document: the "ping" and "http" lists of its
\* entries.  The substitutions of load_yaml run over the file's text before
\* it is parsed, that is over every string the document holds.
load_yaml(doc, extra_env, env) ==
    [ping |-> [i \in DOMAIN doc.ping |->
                  [name |-> LoadText(doc.ping[i].name, extra_env, env),
                   host |-> LoadText(doc.ping[i].host, extra_env, env)]],
     http |-> [i \in DOMAIN doc.http |->
                  [name |-> LoadText(doc.http[i].name, extra_env, env),
                   method |-> LoadText(doc.http[i].method, extra_env, env),
                   url |-> LoadText(doc.http[i].url, extra_env, env),
                   expect_text |->
                       LoadOptText(doc.http[i].expect_text, extra_env, env),
                   expect_status |-> doc.http[i].expect_status,
                   accept_error_substring |->
                       LoadOptText(doc.http[i].accept_error_substring,
                                   extra_env, env)]]]

\* load_yaml(inventory_path) on one entry of the "nodes" list.
LoadNode(entry, env) ==
    [name |-> LoadText(entry.name, None, env),
     id |-> LoadText(entry.id, None, env),
     address |-> LoadText(entry.address, None, env),
     host |-> LoadText(entry.host, None, env),
     profile |-> entry.profile]

QUOTE == "\""
BACKSLASH == "\\"

\* json.dumps on one string: the quote and the backslash are escaped.
RECURSIVE JsonDumps(_)
JsonDumps(text) ==
    IF text = <<>> THEN <<>>
    ELSE (IF Head(text) \in {QUOTE, BACKSLASH}
          THEN <<BACKSLASH, Head(text)>>
          ELSE <<Head(text)>>)
         \o JsonDumps(Tail(text))

\* json.loads on one string of well-formed JSON text.
RECURSIVE JsonLoads(_)
JsonLoads(text) ==
    IF text = <<>> THEN <<>>
    ELSE IF Head(text) = BACKSLASH /\ Len(text) >= 2
         THEN <<text[2]>> \o JsonLoads(Tail(Tail(text)))
         ELSE <<Head(text)>> \o JsonLoads(Tail(text))

\* One string of the profile through json.dumps, the replacement of
\* ${ADDRESS} in the JSON text, and json.loads.
SubstituteText(text, address) ==
    JsonLoads(Replace(JsonDumps(text), ADDRESS_PH, address))

SubstituteOptText(opt, address) ==
    IF opt.has THEN Some(SubstituteText(opt.v, address)) ELSE opt

\* json.loads(json.dumps(raw_profile).replace("${ADDRESS}", address))
SubstituteProfile(raw_profile, address) ==
    [ping |-> [i \in DOMAIN raw_profile.ping |->
                  [name |-> SubstituteText(raw_profile.ping[i].name, address),
                   host |-> SubstituteText(raw_profile.ping[i].host, address)]],
     http |-> [i \in DOMAIN raw_profile.http |->
                  [name |-> SubstituteText(raw_profile.http[i].name, address),
                   method |-> SubstituteText(raw_profile.http[i].method, address),
                   url |-> SubstituteText(raw_profile.http[i].url, address),
                   expect_text |->
                       SubstituteOptText(raw_profile.http[i].expect_text, address),
                   expect_status |-> raw_profile.http[i].expect_status,
                   accept_error_substring |->
                       SubstituteOptText(raw_profile.http[i].accept_error_substring,
                                         address)]]]

\* str.upper() on the method names the profiles use.
UpperToken(tok) ==
    CASE tok = "get" -> "GET"
      [] tok = "post" -> "POST"
      [] OTHER -> tok

Upper(text) == [i \in DOMAIN text |-> UpperToken(text[i])]

----------------------------------------------------------------------------
(* materialise_checks, one inventory entry *)

NodeName(n) == Strip(Or(Or(n.name, n.id), <<"node">>))

NodeAddress(n) == Strip(Or(Or(n.address, n.host), <<>>))

\* node.get("profile", "default")
ProfileName(n) == IF n.profile.has THEN n.profile.v ELSE "default"

\* The skip test without its address half.
SkipsNamelessOnly(n) == ~Truthy(NodeName(n))

\* "if not node_name or not address: continue"
SkipsNode(n) == ~Truthy(NodeName(n)) \/ ~Truthy(NodeAddress(n))

UsesOverride(d) == d.template.configured /\ d.template.exists

PingCheck(entry, address) ==
    [name |-> Strip(Or(Or(entry.name, entry.host), <<"ping">>)),
     host |-> Or(entry.host, address)]

HttpCheck(entry, address) ==
    [name |-> Strip(Or(Or(entry.name, entry.url), <<"http">>)),
     method |-> Upper(Or(entry.method, <<"GET">>)),
     url |-> Replace(entry.url, ADDRESS_PH, address),
     expect_text |-> entry.expect_text,
     expect_status |-> entry.expect_status,
     accept_error_substring |-> entry.accept_error_substring]

HasUrl(entry) == Truthy(entry.url)

BuildNodeChecks(node_name, address, profile_data) ==
    LET withUrl == SelectSeq(profile_data.http, HasUrl) IN
    [node_name |-> node_name,
     ping |-> [i \in DOMAIN profile_data.ping |->
                  PingCheck(profile_data.ping[i], address)],
     http |-> [i \in DOMAIN withUrl |-> HttpCheck(withUrl[i], address)]]

----------------------------------------------------------------------------
(* The inputs of a run: files, environment, inventory entries *)

\* How many inventory entries a run holds at most.
MaxNodes == 2

\* The profile of the end-to-end scenario: one ping probe of the node's
\* address and GET http://${ADDRESS}:8080/health expecting status 200.
DefaultDoc ==
    [ping |-> << [name |-> <<>>, host |-> <<ADDRESS_PH>>] >>,
     http |-> << [name |-> <<"health">>,
                  method |-> <<"get">>,
                  url |-> <<"http://", ADDRESS_PH, ":8080/health">>,
                  expect_text |-> None,
                  expect_status |-> Some(200),
                  accept_error_substring |-> None] >>]

\* A ping probe with no host of its own, an http entry with no url, and an
\* http probe whose url takes one part from the environment.
GatewayDoc ==
    [ping |-> << [name |-> <<WS, "gw", WS>>, host |-> <<>>] >>,
     http |-> << [name |-> <<"nourl">>,
                  method |-> <<>>,
                  url |-> <<>>,
                  expect_text |-> None,
                  expect_status |-> None,
                  accept_error_substring |-> None],
                 [name |-> <<>>,
                  method |-> <<>>,
                  url |-> <<"http://", NETWORKNODE_IP_PH, "/", ADDRESS_PH>>,
                  expect_text |-> Some(<<"ready">>),
                  expect_status |-> None,
                  accept_error_substring |-> Some(<<"refused">>)] >>]

\* A file that holds no probes: yaml.safe_load(text) or {}.
EmptyDoc == [ping |-> <<>>, http |-> <<>>]

\* A profile of one ping probe with a host of its own.
PingOnlyDoc ==
    [ping |-> << [name |-> <<"loopback">>, host |-> <<"127.0.0.1">>] >>,
     http |-> <<>>]

ProfileDocs == {DefaultDoc, GatewayDoc, EmptyDoc, PingOnlyDoc}

Missing == [exists |-> FALSE]
File(doc) == [exists |-> TRUE, doc |-> doc]

ProfileNames == {"default", "edge"}

\* The profiles directory: default.yml and edge.yml, each there or not.
ProfileDirs ==
    {[p \in ProfileNames |-> IF p = "default" THEN fd ELSE fe] :
        fd \in {Missing, File(DefaultDoc), File(GatewayDoc)},
        fe \in {Missing, File(EmptyDoc)}}

\* --template: not given, given but not there, or a file.
Templates ==
    {[configured |-> FALSE, exists |-> FALSE],
     [configured |-> TRUE, exists |-> FALSE],
     [configured |-> TRUE, exists |-> TRUE, doc |-> GatewayDoc]}

\* The inventory file is there or not; what it holds is read entry by entry.
Inventories == {Missing, [exists |-> TRUE]}

Disks == [profiles : ProfileDirs, template : Templates, inventory : Inventories]

Unset == [ADDRESS |-> None, NETWORKNODE_IP |-> None]

Environments ==
    {Unset,
     [Unset EXCEPT !.ADDRESS = Some(<<"9.9.9.9">>)],
     [Unset EXCEPT !.NETWORKNODE_IP = Some(<<"192.168.0.1">>)]}

Entry(name, id, address, host, profile) ==
    [name |-> name, id |-> id, address |-> address, host |-> host,
     profile |-> profile]

\* The entries an inventory may hold, as written in the file: a plain entry,
\* and entries that differ from it in the name fields, in the address fields
\* or in the profile.
NodeEntries ==
    {Entry(<<"edge-1", WS>>, <<>>, <<"10.0.0.5">>, <<>>, None),
     Entry(<<>>, <<"id-2">>, <<"10.0.0.5">>, <<>>, None),
     Entry(<<>>, <<>>, <<"10.0.0.5">>, <<>>, None),
     Entry(<<WS>>, <<"id-2">>, <<"10.0.0.5">>, <<>>, None),
     Entry(<<"edge-1", WS>>, <<>>, <<>>, <<"10.0.0.6">>, None),
     Entry(<<"edge-1", WS>>, <<>>, <<>>, <<>>, None),
     Entry(<<"edge-1", WS>>, <<>>, <<WS>>, <<"10.0.0.6">>, None),
     Entry(<<>>, <<>>, <<>>, <<>>, None),
     Entry(<<"edge-1", WS>>, <<>>, <<"10.0.0.5">>, <<>>, Some("edge")),
     Entry(<<>>, <<"id-2">>, <<>>, <<"10.0.0.6">>, Some("edge"))}

NoNode == Entry(<<>>, <<>>, <<>>, <<>>, None)

----------------------------------------------------------------------------
(* main and materialise_checks *)

NoReads == [default |-> 0, edge |-> 0, template |-> 0]
EmptyCache == [p \in ProfileNames |-> None]

\* One iteration of "for node in nodes" of materialise_checks, driven by the
\* for loop of main, which appends one scheduler task per yielded NodeChecks.
\* m is main's state before the iteration, the result its state after.
\* A profile file that is not there makes path.read_text raise
\* FileNotFoundError, which nothing between load_yaml and main catches.
materialise_checks(m, raw, d, env) ==
    LET n == LoadNode(raw, env)
        node_name == NodeName(n)
        address == NodeAddress(n)
        profile_name == ProfileName(n)
        file == d.profiles[profile_name]
        cached == m.profiles_cache[profile_name].has
        raw_profile == IF cached THEN m.profiles_cache[profile_name].v
                       ELSE load_yaml(file.doc, None, env)
        profile_data ==
            IF UsesOverride(d)
            THEN load_yaml(d.template.doc, Some(address), env)
            ELSE SubstituteProfile(raw_profile, address)
        yielded == [checks |-> BuildNodeChecks(node_name, address, profile_data),
                    src |-> raw]
    IN
    IF SkipsNode(n)
    THEN [m EXCEPT !.lastYield = "skipped"]
    ELSE IF UsesOverride(d)
    THEN [m EXCEPT !.lastYield = "yielded",
                   !.reads.template = @ + 1,
                   !.loopTasks = Append(@, yielded)]
    ELSE IF ~cached /\ ~file.exists
    THEN [m EXCEPT !.lastYield = "raised", !.mainPc = "crashed"]
    ELSE [m EXCEPT !.lastYield = "yielded",
                   !.profiles_cache[profile_name] = Some(raw_profile),
                   !.reads[profile_name] = IF cached THEN @ ELSE @ + 1,
                   !.loopTasks = Append(@, yielded)]

\* main before the first inventory entry.
MainStart ==
    [mainPc |-> "materialise", profiles_cache |-> EmptyCache, reads |-> NoReads,
     loopTasks |-> <<>>, lastYield |-> "none"]

MaterialiseNode(raw) ==
    LET m == materialise_checks(
                 [mainPc |-> mainPc, profiles_cache |-> profiles_cache,
                  reads |-> reads, loopTasks |-> loopTasks,
                  lastYield |-> lastYield],
                 raw, disk, environ)
    IN
    /\ mainPc = "materialise"
    /\ nodeCount < MaxNodes
    /\ node' = raw
    /\ nodeCount' = nodeCount + 1
    /\ nodes' = Append(nodes, raw)
    /\ mainPc' = m.mainPc
    /\ profiles_cache' = m.profiles_cache
    /\ reads' = m.reads
    /\ loopTasks' = m.loopTasks
    /\ lastYield' = m.lastYield
    /\ UNCHANGED <<environ, disk, mainOut, schedVars, callVars, hubVars>>

\* The inventory is exhausted: main runs the event loop on gather(*tasks).
\* gather() of no tasks is a future that is already done.
RunUntilComplete ==
    /\ mainPc = "materialise"
    /\ mainPc' = IF loopTasks = <<>> THEN "returned" ELSE "run_until_complete"
    /\ UNCHANGED <<environ, disk, node, nodeCount, profiles_cache, reads,
                   loopTasks, lastYield, nodes, mainOut, schedVars, callVars, hubVars>>

----------------------------------------------------------------------------
(* The probe executors *)

\* The slice of the body that run_http reports.
BodySampleLen == 512

\* str(status_code) for the codes the responses carry.
IntText(i) ==
    CASE i = 200 -> "200"
      [] i = 404 -> "404"
      [] i = 500 -> "500"
      [] OTHER -> "?"

\* An error status with no "error" field beside it.
WithoutError(record, error) == record

WithError(record, error) ==
    [f \in DOMAIN record \cup {"error"} |->
        IF f = "error" THEN error ELSE record[f]]

\* A process that a signal killed (a negative exit code) taken for a success.
run_pingOkOnSignal(check, proc) ==
    LET record == [kind |-> "ping",
                   name |-> check.name,
                   host |-> check.host,
                   status |-> IF proc.returncode <= 0 THEN "ok" ELSE "error",
                   return_code |-> proc.returncode,
                   stdout |-> Strip(proc.stdout),
                   stderr |-> Strip(proc.stderr)]
    IN IF proc.returncode > 0 THEN WithError(record, <<"ping_failed">>)
       ELSE record

\* run_ping once the process has exited (lines 102-117); proc is the exit
\* code and the captured output.  The timestamp and the measured latency
\* are left out of every record: no probe result depends on them.
run_ping(check, proc) ==
    LET record == [kind |-> "ping",
                   name |-> check.name,
                   host |-> check.host,
                   status |-> IF proc.returncode = 0 THEN "ok" ELSE "error",
                   return_code |-> proc.returncode,
                   stdout |-> Strip(proc.stdout),
                   stderr |-> Strip(proc.stderr)]
    IN IF proc.returncode # 0 THEN WithError(record, <<"ping_failed">>)
       ELSE record

\* The body check without its "ok and": a body mismatch overwrites a status
\* mismatch.
ClassifyResponseBodyLast(check, status_code, body) ==
    LET statusBad == /\ check.expect_status.has
                     /\ status_code # check.expect_status.v
        bodyBad == /\ check.expect_text.has
                   /\ ~Contains(body, check.expect_text.v)
        ok == ~statusBad /\ ~bodyBad
        error == IF bodyBad THEN <<"unexpected_body">>
                 ELSE <<"unexpected_status:", IntText(status_code)>>
        record == [kind |-> "http",
                   name |-> check.name,
                   url |-> check.url,
                   status |-> IF ok THEN "ok" ELSE "error",
                   http_status |-> Some(status_code),
                   body_sample |-> IF Truthy(body) THEN Take(body, BodySampleLen)
                                   ELSE <<>>]
    IN IF ~ok THEN WithError(record, error) ELSE record

\* The try block of run_http for a completed response (lines 128-152).
ClassifyResponse(check, status_code, body) ==
    LET statusBad == /\ check.expect_status.has
                     /\ status_code # check.expect_status.v
        ok1 == ~statusBad
        error1 == IF statusBad
                  THEN Some(<<"unexpected_status:", IntText(status_code)>>)
                  ELSE None
        bodyBad == /\ ok1
                   /\ check.expect_text.has
                   /\ ~Contains(body, check.expect_text.v)
        ok == ok1 /\ ~bodyBad
        error == IF bodyBad THEN Some(<<"unexpected_body">>) ELSE error1
        record == [kind |-> "http",
                   name |-> check.name,
                   url |-> check.url,
                   status |-> IF ok THEN "ok" ELSE "error",
                   http_status |-> Some(status_code),
                   body_sample |-> IF Truthy(body) THEN Take(body, BodySampleLen)
                                   ELSE <<>>]
    IN IF ~ok
       THEN WithError(record, IF error.has THEN error.v ELSE <<"check_failed">>)
       ELSE record

\* Comparing the whole description instead of searching it.
AcceptsErrorExactly(check, detail) ==
    /\ check.accept_error_substring.has
    /\ Truthy(check.accept_error_substring.v)
    /\ detail = check.accept_error_substring.v

\* "check.accept_error_substring and check.accept_error_substring in detail"
AcceptsError(check, detail) ==
    /\ check.accept_error_substring.has
    /\ Truthy(check.accept_error_substring.v)
    /\ Contains(detail, check.accept_error_substring.v)

\* The except block of run_http (lines 153-179): exc was raised by the
\* request, before any status code or body was assigned.
ClassifyException(check, exc) ==
    LET detail == exc.detail
        body == <<>>
    IN IF AcceptsError(check, detail)
       THEN [kind |-> "http",
             name |-> check.name,
             url |-> check.url,
             status |-> "ok",
             note |-> "accepted_error",
             accepted_error |-> detail]
       ELSE [kind |-> "http",
             name |-> check.name,
             url |-> check.url,
             status |-> "error",
             error |-> <<"exception:", exc.type>>,
             detail |-> detail,
             http_status |-> None,
             body_sample |-> IF Truthy(body) THEN Take(body, BodySampleLen)
                             ELSE <<>>]

\* run_http: what the request did is either a response or a raised error.
run_http(check, outcome) ==
    IF outcome.raised
    THEN ClassifyException(check, outcome.exc)
    ELSE ClassifyResponse(check, outcome.status_code, outcome.text)

Response(status_code, text) ==
    [raised |-> FALSE, status_code |-> status_code, text |-> text]
Raised(type, detail) ==
    [raised |-> TRUE, exc |-> [type |-> type, detail |-> detail]]

----------------------------------------------------------------------------
(* The result emitter *)

HOSTNAME == <<"checker-host">>
INSTANCE_ID == <<"unknown-instance">>
INSTANCE_ROLE == <<"host">>

\* log_record: the enriched record that is printed as one line.
log_record(record, instance_id, instance_role, node_name) ==
    [f \in DOMAIN record \cup {"instance_id", "instance_role", "node", "host"} |->
        CASE f = "instance_id" -> instance_id
          [] f = "instance_role" -> instance_role
          [] f = "node" -> node_name
          [] f = "host" -> HOSTNAME
          [] OTHER -> record[f]]

----------------------------------------------------------------------------
(* main: the inventory check *)

INVENTORY_PATH == <<"/etc/connectivity/nodes.yml">>

\* The record main logs when the inventory is not there (lines 312-318).
InventoryMissingRecord ==
    [kind |-> "config",
     status |-> "error",
     error |-> <<"inventory_missing">>,
     config_path |-> INVENTORY_PATH]

\* An inventory check that always passes.
InventoryNeverMissing(d) == FALSE

\* "if not inventory_path.exists()"
InventoryMissing(d) == ~d.inventory.exists

\* main from its first line to the inventory check: without an inventory it
\* logs the config record under the node name "inventory" and calls
\* time.sleep(poll_interval); with one it goes on to materialise the nodes.
CheckInventory ==
    /\ mainPc = "start"
    /\ IF InventoryMissing(disk)
       THEN /\ mainOut' = Append(mainOut,
                                 log_record(InventoryMissingRecord, INSTANCE_ID,
                                            INSTANCE_ROLE, <<"inventory">>))
            /\ mainPc' = "time_sleep"
       ELSE /\ mainPc' = "materialise"
            /\ UNCHANGED mainOut
    /\ UNCHANGED <<environ, disk, node, nodeCount, profiles_cache, reads,
                   loopTasks, lastYield, nodes, schedVars, callVars, hubVars>>

\* time.sleep(poll_interval) is over and main returns (line 324).
PauseElapsed ==
    /\ mainPc = "time_sleep"
    /\ mainPc' = "returned"
    /\ UNCHANGED <<environ, disk, node, nodeCount, profiles_cache, reads,
                   loopTasks, lastYield, nodes, mainOut, schedVars, callVars, hubVars>>

----------------------------------------------------------------------------
(* run_checks_for_node: one loop per node, on one event loop *)

NodeIds == {1, 2}

\* What a ping process may do: exit 0, exit non-zero, or fail to start
\* (create_subprocess_exec raises when the ping command is not there).
PingExits ==
    {[returncode |-> 0, stdout |-> <<"1 received", WS>>, stderr |-> <<>>],
     [returncode |-> 2, stdout |-> <<>>, stderr |-> <<WS, "unknown host">>]}

PingRaises == {[type |-> "FileNotFoundError", detail |-> <<"No such file">>]}

\* What a request may do, as far as the scheduler is concerned.
SchedHttpOutcomes ==
    {Response(200, <<"ready">>),
     Raised("ConnectError", <<"Connection", WS, "refused">>)}

Pending == [st |-> "pending"]
Result(record) == [st |-> "result", result |-> record]
Exception(exc) == [st |-> "exception", exception |-> exc]

\* The tasks list of one cycle: the ping checks, then the http checks.
NumProbes(nc) == Len(nc.ping) + Len(nc.http)

IsPing(nc, i) == i <= Len(nc.ping)

\* What task i of node n may finish with.
TaskOutcomes(nc, i) ==
    IF IsPing(nc, i)
    THEN {Result(run_ping(nc.ping[i], proc)) : proc \in PingExits}
         \cup {Exception(exc) : exc \in PingRaises}
    ELSE {Result(run_http(nc.http[i - Len(nc.ping)], o)) : o \in SchedHttpOutcomes}

\* A narrower except clause, as in "except ValueError".
CaughtOnlyValueError(exc) == exc.type = "ValueError"

\* "except Exception": every error a probe raises is an Exception; the
\* cancellation of a task is not.
CaughtByExcept(exc) == exc.type # "CancelledError"

\* The record of the except block of the scheduler (lines 212-223).
TaskExceptionRecord(exc) ==
    [kind |-> "error",
     status |-> "error",
     error |-> <<"task_exception:", exc.type>>,
     detail |-> exc.detail]

\* Awaiting the tasks in the order of the list, as "for task in tasks" would.
InListOrderNext(n) ==
    {i \in DOMAIN tasks[n] :
        i = Len(batchOut[n]) + 1 /\ tasks[n][i].st # "pending"}

\* The task that "for task in asyncio.as_completed(tasks)" hands out next:
\* the one that finished first among those not handed out yet.
AsCompletedNext(n) ==
    IF doneQ[n] # <<>> THEN {Head(doneQ[n])} ELSE {}

\* Leaving the for loop after the first task that finished.
BatchOverAfterFirst(n, out) == Len(out) >= 1

\* One barrier for all nodes: a batch is over only when no probe of any
\* node is still pending.
BatchOverEverywhere(n, out) ==
    /\ Len(out) = Len(tasks[n])
    /\ \A m \in NodeIds : \A i \in DOMAIN tasks[m] : tasks[m][i].st # "pending"

\* A for loop that never ends.
BatchNeverOver(n, out) == FALSE

\* Leaving the for loop as soon as no finished task is waiting.
BatchOverWhenQueueDrained(n, out) == Len(out) = Len(finished[n])

\* The for loop over as_completed is over when every task was handed out.
BatchOver(n, out) == Len(out) = Len(tasks[n])

\* The timer of asyncio.sleep(poll_interval) fires.
SleepElapsed(n) ==
    /\ mainPc = "run_until_complete"
    /\ pc[n] = "sleeping"
    /\ pc' = [pc EXCEPT ![n] = "ready"]
    /\ UNCHANGED <<matVars, node_checks, tasks, doneQ, batchOut, finished, atCancel,
                   callVars, hubVars>>

\* The loop task runs for the first time ("created") or resumes after its
\* sleep ("ready"), from "while True" to its next suspension: it creates one
\* task per check and awaits the first of as_completed, or, with no checks,
\* goes to sleep at once.
BeginCycle(n) ==
    LET N == NumProbes(node_checks[n]) IN
    /\ mainPc = "run_until_complete"
    /\ pc[n] \in {"created", "ready"}
    /\ tasks' = [tasks EXCEPT ![n] = [i \in 1..N |-> Pending]]
    /\ doneQ' = [doneQ EXCEPT ![n] = <<>>]
    /\ batchOut' = [batchOut EXCEPT ![n] = <<>>]
    /\ finished' = [finished EXCEPT ![n] = <<>>]
    /\ pc' = [pc EXCEPT ![n] = IF N = 0 THEN "sleeping" ELSE "await_task"]
    /\ UNCHANGED <<matVars, node_checks, atCancel, callVars, hubVars>>

\* The event loop runs inside one of the two run_until_complete calls of
\* main (lines 346 and 350).
EventLoopRuns == mainPc \in {"run_until_complete", "gather_cancelled"}

\* A pending probe task of node n finishes, with a record or with a raised
\* error; its done callback puts it on the queue of as_completed.
TaskFinish(n) ==
    /\ EventLoopRuns
    /\ \E i \in DOMAIN tasks[n] :
         /\ tasks[n][i].st = "pending"
         /\ \E outcome \in TaskOutcomes(node_checks[n], i) :
              tasks' = [tasks EXCEPT ![n][i] = outcome]
         /\ doneQ' = [doneQ EXCEPT ![n] = Append(@, i)]
         /\ finished' = [finished EXCEPT ![n] = Append(@, i)]
    /\ UNCHANGED <<matVars, node_checks, pc, batchOut, atCancel, callVars, hubVars>>

\* The loop resumes with the next finished task: it logs the task's record,
\* or the task_exception record when awaiting the task raises, then awaits
\* the next one or, after the last, starts the sleep.  An error that the
\* except clause does not catch ends the loop.
EmitNext(n) ==
    /\ mainPc = "run_until_complete"
    /\ pc[n] = "await_task"
    /\ \E i \in AsCompletedNext(n) :
         LET task == tasks[n][i]
             name == node_checks[n].node_name
             raw == IF task.st = "result" THEN task.result
                    ELSE TaskExceptionRecord(task.exception)
             out == Append(batchOut[n],
                           [task |-> i,
                            rec |-> log_record(raw, INSTANCE_ID, INSTANCE_ROLE, name)])
         IN
         /\ doneQ' = [doneQ EXCEPT ![n] = SelectSeq(@, LAMBDA j : j # i)]
         /\ IF task.st = "exception" /\ ~CaughtByExcept(task.exception)
            THEN /\ pc' = [pc EXCEPT ![n] = "failed"]
                 /\ UNCHANGED batchOut
            ELSE /\ batchOut' = [batchOut EXCEPT ![n] = out]
                 /\ pc' = [pc EXCEPT ![n] =
                             IF BatchOver(n, out) THEN "sleeping" ELSE "await_task"]
    /\ UNCHANGED <<matVars, node_checks, tasks, finished, atCancel, callVars, hubVars>>

----------------------------------------------------------------------------
(* main: shutdown on KeyboardInterrupt *)

\* What main's "for task in tasks: task.cancel()" finds loop n at: where the
\* loop is suspended and which probe tasks of its batch have finished.
CancelSnapshot(n) ==
    [has |-> TRUE,
     at |-> pc[n],
     finished |-> {i \in DOMAIN tasks[n] : tasks[n][i].st # "pending"}]

\* The interrupt signal arrives while the event loop runs gather(*tasks):
\* run_until_complete raises KeyboardInterrupt, the except block calls
\* cancel() on every loop task and runs the event loop again on
\* gather(*tasks, return_exceptions=True) (lines 347-350).  No line of the
\* program cancels a probe task.
KeyboardInterrupt ==
    /\ mainPc = "run_until_complete"
    /\ mainPc' = "gather_cancelled"
    /\ atCancel' = [n \in NodeIds |-> CancelSnapshot(n)]
    /\ pc' = [n \in NodeIds |-> "cancelling"]
    /\ UNCHANGED <<environ, disk, node, nodeCount, profiles_cache, reads,
                   loopTasks, lastYield, nodes, mainOut, node_checks, tasks,
                   doneQ, batchOut, finished, callVars, hubVars>>

\* The loop task runs again and CancelledError is raised at the await it
\* is suspended at (or at its start, if it never ran).  "except Exception"
\* (line 211) does not catch it: the coroutine ends and the task is
\* cancelled, whatever is still on the queue of as_completed.
LoopCancelled(n) ==
    /\ mainPc = "gather_cancelled"
    /\ pc[n] = "cancelling"
    /\ ~CaughtByExcept([type |-> "CancelledError", detail |-> <<>>])
    /\ pc' = [pc EXCEPT ![n] = "cancelled"]
    /\ UNCHANGED <<matVars, node_checks, tasks, doneQ, batchOut, finished, atCancel,
                   callVars, hubVars>>

\* Every loop task is done: the second gather is done, run_until_complete
\* returns, the finally block closes the event loop and main returns.
MainClose ==
    /\ mainPc = "gather_cancelled"
    /\ \A n \in NodeIds : pc[n] = "cancelled"
    /\ mainPc' = "closed"
    /\ UNCHANGED <<environ, disk, node, nodeCount, profiles_cache, reads,
                   loopTasks, lastYield, nodes, mainOut, schedVars, callVars, hubVars>>

----------------------------------------------------------------------------
(* run_http called on its own *)

\* The longest response body.
MaxBody == 2

BodyTokens == {"ready", "down"}

Bodies == UNION {[1..k -> BodyTokens] : k \in 0..MaxBody}

HttpChecks ==
    [name : {<<"health">>},
     method : {<<"GET">>},
     url : {<<"http://", "10.0.0.5", ":8080/health">>},
     expect_text : {None, Some(<<>>), Some(<<"ready">>), Some(<<"down", "ready">>)},
     expect_status : {None, Some(200), Some(404)},
     accept_error_substring :
         {None, Some(<<>>), Some(<<"refused">>), Some(<<"Connection", WS, "refused">>)}]

HttpOutcomes ==
    {Response(c, b) : c \in {200, 404, 500}, b \in Bodies}
    \cup {Raised(t, d) : t \in {"ConnectError", "ReadTimeout"},
                         d \in {<<"Connection", WS, "refused">>, <<"timed out">>, <<>>}}

NoHttpCall == [pc |-> "none"]

\* run_http returns its record.
HttpReturn ==
    /\ httpCall.pc = "called"
    /\ httpCall' = [pc |-> "returned",
                    check |-> httpCall.check,
                    outcome |-> httpCall.outcome,
                    record |-> run_http(httpCall.check, httpCall.outcome)]
    /\ UNCHANGED <<matVars, schedVars, pingCall, hubVars>>

----------------------------------------------------------------------------
(* run_ping called on its own *)

PingChecks ==
    {[name |-> <<"10.0.0.5">>, host |-> <<"10.0.0.5">>],
     [name |-> <<"gw">>, host |-> <<"10.0.0.6">>],
     [name |-> <<"loopback">>, host |-> <<"127.0.0.1">>]}

\* Exit codes of the ping process; a negative one is the signal that
\* killed it.
ReturnCodes == {0, 1, 2, 255, -9}

PingProcs ==
    [returncode : ReturnCodes,
     stdout : {<<>>, <<WS>>, <<"1 received", WS>>},
     stderr : {<<>>, <<WS>>, <<WS, "unknown host">>}]

NoPingCall == [pc |-> "none"]

\* create_subprocess_exec (lines 92-100): the process is started, once, on
\* the check's host, or the call raises because the command is not there.
PingSpawn ==
    /\ pingCall.pc = "called"
    /\ \/ pingCall' = [pingCall EXCEPT !.pc = "communicate",
                                        !.spawned = Append(@, pingCall.check.host)]
       \/ \E exc \in PingRaises :
            pingCall' = [pc |-> "raised", check |-> pingCall.check,
                         spawned |-> pingCall.spawned, exc |-> exc]
    /\ UNCHANGED <<matVars, schedVars, httpCall, hubVars>>

\* proc.communicate() returns: the process has exited and run_ping returns
\* its record.
PingExit ==
    /\ pingCall.pc = "communicate"
    /\ \E proc \in PingProcs :
         pingCall' = [pc |-> "returned",
                      check |-> pingCall.check,
                      spawned |-> pingCall.spawned,
                      proc |-> proc,
                      record |-> run_ping(pingCall.check, proc)]
    /\ UNCHANGED <<matVars, schedVars, httpCall, hubVars>>

----------------------------------------------------------------------------
(* The hub poller: fetch_nodes, make_log_record, poll_hub, main_async *)

\* The hubs a configuration may name (load_hubs keeps the entries with a
\* name and an ip).
HubNames == {"hub-a", "hub-b"}

\* stop=stop_after_attempt(3) of the retry decorator of fetch_nodes.
stop_after_attempt == 3

\* How many entries the answer of a hub holds at most.
MaxEntries == 2

\* One entry of a hub's answer: its "node" object (its id; None when the
\* JSON holds null there) and the model ids of state.epoch_ml_nodes.
HubEntries ==
    {[node |-> Some("n1"), ml_nodes |-> <<>>],
     [node |-> Some("n2"), ml_nodes |-> <<"m1", "m2">>],
     [node |-> None, ml_nodes |-> <<>>]}

\* resp.json(): any list of entries; nothing checks its shape.
HubAnswers == UNION {[1..k -> HubEntries] : k \in 0..MaxEntries}

\* What one call of fetch_nodes' body does: client.get or raise_for_status
\* raises, or the parsed answer is returned.
FetchOutcomes ==
    {[ok |-> FALSE, exc |-> t] : t \in {"ConnectError", "HTTPStatusError"}}
    \cup {[ok |-> TRUE, nodes |-> a] : a \in HubAnswers}

\* make_log_record: node.get("id") raises AttributeError when "node" is
\* null; else one record per model, or the base record when there is none.
make_log_record(hub_name, node_entry) ==
    IF ~node_entry.node.has
    THEN [raised |-> TRUE, records |-> <<>>]
    ELSE LET ml_nodes == node_entry.ml_nodes
             base_record == [hub |-> hub_name, node_id |-> node_entry.node.v]
         IN [raised |-> FALSE,
             records |->
                 IF ml_nodes # <<>>
                 THEN [i \in DOMAIN ml_nodes |->
                          [hub |-> hub_name, node_id |-> node_entry.node.v,
                           model |-> ml_nodes[i]]]
                 ELSE <<base_record>>]

\* "for entry in nodes: for rec in make_log_record(...): print" (lines
\* 110-112): the lines printed, and whether an entry made the loop raise.
RECURSIVE PrintNodes(_, _)
PrintNodes(hub_name, entries) ==
    IF entries = <<>> THEN [raised |-> FALSE, lines |-> <<>>]
    ELSE LET first == make_log_record(hub_name, Head(entries)) IN
         IF first.raised THEN [raised |-> TRUE, lines |-> <<>>]
         ELSE LET rest == PrintNodes(hub_name, Tail(entries)) IN
              [raised |-> rest.raised, lines |-> first.records \o rest.lines]

\* The record of the except block of poll_hub (lines 100-106): after the
\* last attempt the retry decorator raises RetryError.
FetchFailedRecord(hub_name, exc) ==
    [hub |-> hub_name,
     level |-> "error",
     error |-> <<"fetch_failed: ", "RetryError", ": ", exc>>]

NoHubsRecord == [level |-> "warn", msg |-> "no_hubs_configured"]

\* One turn of "while True" up to its first await: one poll_hub per hub and
\* the gather of them, or, with no hubs, the sleep at once.
StartCycle(out) ==
    /\ hubPoll' = [h \in hubs |-> [st |-> "fetching", attempts |-> 0]]
    /\ hubPc' = IF hubs = {} THEN "sleeping" ELSE "gather"
    /\ hubOut' = out

\* main_async from its first line into the first cycle.
MainAsyncStart ==
    /\ hubPc = "start"
    /\ StartCycle(IF hubs = {} THEN <<NoHubsRecord>> ELSE <<>>)
    /\ UNCHANGED <<matVars, schedVars, callVars, hubs>>

\* asyncio.sleep(poll_interval) is over: the next cycle begins.
HubSleepElapsed ==
    /\ hubPc = "sleeping"
    /\ StartCycle(<<>>)
    /\ UNCHANGED <<matVars, schedVars, callVars, hubs>>

\* One attempt of fetch_nodes for hub h and what poll_hub does with it: a
\* failed attempt is retried (after a wait) until it was the third, then
\* poll_hub prints its error record and returns; an answer is printed entry
\* by entry, outside the try block, so an entry that makes make_log_record
\* raise ends poll_hub with that error.
FetchAttempt(h) ==
    /\ hubPc = "gather"
    /\ h \in hubs
    /\ hubPoll[h].st = "fetching"
    /\ \E o \in FetchOutcomes :
         LET attempts == hubPoll[h].attempts + 1
             printed == PrintNodes(h, o.nodes)
         IN
         IF ~o.ok
         THEN IF attempts >= stop_after_attempt
              THEN /\ hubPoll' = [hubPoll EXCEPT ![h] =
                                     [st |-> "failed", attempts |-> attempts]]
                   /\ hubOut' = Append(hubOut, FetchFailedRecord(h, o.exc))
              ELSE /\ hubPoll' = [hubPoll EXCEPT ![h].attempts = attempts]
                   /\ UNCHANGED hubOut
         ELSE /\ hubPoll' = [hubPoll EXCEPT ![h] =
                                [st |-> IF printed.raised THEN "raised"
                                        ELSE "reported",
                                 attempts |-> attempts]]
              /\ hubOut' = hubOut \o printed.lines
    /\ UNCHANGED <<matVars, schedVars, callVars, hubs, hubPc>>

\* A poll_hub raised: gather(*tasks) hands the error to main_async, which
\* has no handler for it; the while loop ends and asyncio.run raises.
GatherRaises ==
    /\ hubPc = "gather"
    /\ \E h \in hubs : hubPoll[h].st = "raised"
    /\ hubPc' = "raised"
    /\ UNCHANGED <<matVars, schedVars, callVars, hubs, hubPoll, hubOut>>

\* Every poll_hub returned: gather is done and the loop goes to its sleep.
GatherDone ==
    /\ hubPc = "gather"
    /\ \A h \in hubs : hubPoll[h].st \in {"failed", "reported"}
    /\ hubPc' = "sleeping"
    /\ UNCHANGED <<matVars, schedVars, callVars, hubs, hubPoll, hubOut>>

----------------------------------------------------------------------------
(* The specifications *)

\* The hub poller is not running.
NoHubPoller ==
    /\ hubs = {}
    /\ hubPc = "none"
    /\ hubPoll = <<>>
    /\ hubOut = <<>>

NoLoops ==
    /\ node_checks = <<>>
    /\ pc = <<>>
    /\ tasks = <<>>
    /\ doneQ = <<>>
    /\ batchOut = <<>>
    /\ finished = <<>>
    /\ atCancel = <<>>

\* main at the start of materialisation, for any files and environment.
MatInit ==
    /\ environ \in Environments
    /\ disk \in Disks
    /\ mainPc = "start"
    /\ profiles_cache = MainStart.profiles_cache
    /\ reads = MainStart.reads
    /\ loopTasks = MainStart.loopTasks
    /\ lastYield = MainStart.lastYield
    /\ node = NoNode
    /\ nodeCount = 0
    /\ nodes = <<>>
    /\ mainOut = <<>>
    /\ NoLoops
    /\ httpCall = NoHttpCall
    /\ pingCall = NoPingCall
    /\ NoHubPoller

MatNext ==
    \/ CheckInventory
    \/ PauseElapsed
    \/ \E raw \in NodeEntries : MaterialiseNode(raw)
    \/ RunUntilComplete

MatSpec == MatInit /\ [][MatNext]_vars

\* The inventory of the scheduler's runs: two valid nodes, one per profile.
SchedEntry(n) ==
    IF n = 1
    THEN Entry(<<"edge-1">>, <<>>, <<"10.0.0.5">>, <<>>, None)
    ELSE Entry(<<>>, <<"id-2">>, <<>>, <<"10.0.0.6">>, Some("edge"))

SchedEnviron == [Unset EXCEPT !.NETWORKNODE_IP = Some(<<"192.168.0.1">>)]

\* main once it has created one loop task per node and runs the event loop.
Init ==
    \E d1 \in ProfileDocs, d2 \in ProfileDocs :
      LET d == [profiles |-> [p \in ProfileNames |->
                                 IF p = "default" THEN File(d1) ELSE File(d2)],
                template |-> [configured |-> FALSE, exists |-> FALSE],
                inventory |-> [exists |-> TRUE]]
          m1 == materialise_checks(MainStart, SchedEntry(1), d, SchedEnviron)
          m2 == materialise_checks(m1, SchedEntry(2), d, SchedEnviron)
      IN
      /\ environ = SchedEnviron
      /\ disk = d
      /\ mainPc = "run_until_complete"
      /\ profiles_cache = m2.profiles_cache
      /\ reads = m2.reads
      /\ loopTasks = m2.loopTasks
      /\ lastYield = m2.lastYield
      /\ node = SchedEntry(2)
      /\ nodeCount = 2
      /\ nodes = <<SchedEntry(1), SchedEntry(2)>>
      /\ mainOut = <<>>
      /\ node_checks = [n \in NodeIds |-> m2.loopTasks[n].checks]
      /\ pc = [n \in NodeIds |-> "created"]
      /\ tasks = [n \in NodeIds |-> <<>>]
      /\ doneQ = [n \in NodeIds |-> <<>>]
      /\ batchOut = [n \in NodeIds |-> <<>>]
      /\ finished = [n \in NodeIds |-> <<>>]
      /\ atCancel = [n \in NodeIds |-> None]
      /\ httpCall = NoHttpCall
      /\ pingCall = NoPingCall
      /\ NoHubPoller

Next ==
    \/ \E n \in NodeIds : BeginCycle(n)
    \/ \E n \in NodeIds : TaskFinish(n)
    \/ \E n \in NodeIds : EmitNext(n)
    \/ \E n \in NodeIds : SleepElapsed(n)

Spec == Init /\ [][Next]_vars

\* The event loop runs every callback that is ready and fires every timer:
\* each step of each node loop is taken once it can be.  Whether a probe
\* ever finishes is up to the network and the ping process: the probes of
\* node 2 are taken to finish, those of node 1 may hang for ever.
FairSpec ==
    /\ Spec
    /\ \A n \in NodeIds :
         /\ WF_vars(BeginCycle(n))
         /\ WF_vars(EmitNext(n))
         /\ WF_vars(SleepElapsed(n))
    /\ WF_vars(TaskFinish(2))

\* The runs in which every probe of every node finishes, with a record or
\* with a raised error: the event loop is fair as in FairSpec, and no ping
\* process or request hangs.
LiveSpec ==
    /\ FairSpec
    /\ WF_vars(TaskFinish(1))

\* No main is running: a probe executor is called on its own.
NoMain ==
    /\ environ = SchedEnviron
    /\ disk = [profiles |-> [p \in ProfileNames |-> Missing],
               template |-> [configured |-> FALSE, exists |-> FALSE],
               inventory |-> Missing]
    /\ mainPc = "none"
    /\ profiles_cache = EmptyCache
    /\ reads = NoReads
    /\ loopTasks = <<>>
    /\ lastYield = "none"
    /\ node = NoNode
    /\ nodeCount = 0
    /\ nodes = <<>>
    /\ mainOut = <<>>

\* The runs with a shutdown: node 1 on the profile of the end-to-end
\* scenario (one ping and one http probe), node 2 on a profile of one ping.
ShutdownInit ==
    /\ Init
    /\ disk.profiles["default"].doc = DefaultDoc
    /\ disk.profiles["edge"].doc = PingOnlyDoc

ShutdownNext ==
    \/ \E n \in NodeIds : BeginCycle(n)
    \/ \E n \in NodeIds : TaskFinish(n)
    \/ \E n \in NodeIds : EmitNext(n)
    \/ \E n \in NodeIds : SleepElapsed(n)
    \/ KeyboardInterrupt
    \/ \E n \in NodeIds : LoopCancelled(n)
    \/ MainClose

ShutdownSpec == ShutdownInit /\ [][ShutdownNext]_vars

HttpInit ==
    /\ environ = SchedEnviron
    /\ NoMain
    /\ NoLoops
    /\ pingCall = NoPingCall
    /\ NoHubPoller
    /\ httpCall \in [pc : {"called"}, check : HttpChecks, outcome : HttpOutcomes]

HttpNext == HttpReturn

HttpSpec == HttpInit /\ [][HttpNext]_vars

PingInit ==
    /\ NoMain
    /\ NoLoops
    /\ httpCall = NoHttpCall
    /\ NoHubPoller
    /\ pingCall \in [pc : {"called"}, check : PingChecks, spawned : {<<>>}]

PingNext ==
    \/ PingSpawn
    \/ PingExit

PingSpec == PingInit /\ [][PingNext]_vars

\* Every way a record comes about: main without an inventory, the node
\* loops once main has materialised the inventory, and the two executors
\* on any check and any outcome.
\* The hub poller on its own, for any set of configured hubs.
HubInit ==
    /\ NoMain
    /\ NoLoops
    /\ httpCall = NoHttpCall
    /\ pingCall = NoPingCall
    /\ hubs \in SUBSET HubNames
    /\ hubPc = "start"
    /\ hubPoll = <<>>
    /\ hubOut = <<>>

HubNext ==
    \/ MainAsyncStart
    \/ \E h \in HubNames : FetchAttempt(h)
    \/ GatherRaises
    \/ GatherDone
    \/ HubSleepElapsed

HubSpec == HubInit /\ [][HubNext]_vars

RecordsInit ==
    \/ MatInit /\ InventoryMissing(disk)
    \/ Init
    \/ HttpInit
    \/ PingInit

RecordsNext ==
    \/ CheckInventory
    \/ PauseElapsed
    \/ \E n \in NodeIds : BeginCycle(n)
    \/ \E n \in NodeIds : TaskFinish(n)
    \/ \E n \in NodeIds : EmitNext(n)
    \/ \E n \in NodeIds : SleepElapsed(n)
    \/ HttpReturn
    \/ PingSpawn
    \/ PingExit

RecordsSpec == RecordsInit /\ [][RecordsNext]_vars

----------------------------------------------------------------------------
(* Claims about the per-node scheduler *)

Range(seq) == {seq[i] : i \in DOMAIN seq}

EmittedTasks(n) == [j \in DOMAIN batchOut[n] |-> batchOut[n][j].task]

\* The records of the current cycle of node n that belong to task i.
RecordsOf(n, i) == {j \in DOMAIN batchOut[n] : batchOut[n][j].task = i}

\* C1: in every cycle of a node with N probes exactly N records are emitted,
\* one per probe task of the cycle, each tagged with the node's name, and
\* all N of them before the sleep of that cycle begins.
C1_BatchEmittedBeforeSleep ==
    \A n \in NodeIds :
      LET N == NumProbes(node_checks[n]) IN
      /\ Len(batchOut[n]) <= N
      /\ \A j \in DOMAIN batchOut[n] :
           /\ batchOut[n][j].task \in 1..N
           /\ batchOut[n][j].rec.node = node_checks[n].node_name
      /\ \A i \in 1..N : Cardinality(RecordsOf(n, i)) <= 1
      /\ pc[n] \in {"sleeping", "ready"} =>
           /\ Len(batchOut[n]) = N
           /\ \A i \in 1..N : Cardinality(RecordsOf(n, i)) = 1

\* A node with two probes sleeps with both records out, and so does a node
\* with one probe with its one record.
C1_Witness ==
    \E n \in NodeIds :
      /\ NumProbes(node_checks[n]) = 2
      /\ pc[n] = "sleeping"
      /\ Len(batchOut[n]) = 2
      /\ batchOut[n][1].rec.node = <<"edge-1">>
      /\ \E m \in NodeIds :
           /\ NumProbes(node_checks[m]) = 1
           /\ pc[m] = "sleeping"
           /\ Len(batchOut[m]) = 1

\* C2: within one batch the records are emitted in the order in which the
\* probes finished, not in the order of the task list, and the record of a
\* finished probe is emitted without waiting for a probe that has not
\* finished: the loop can always take the next finished task.
C2_EmittedInCompletionOrder ==
    \A n \in NodeIds :
      /\ Len(batchOut[n]) <= Len(finished[n])
      /\ EmittedTasks(n) = SubSeq(finished[n], 1, Len(batchOut[n]))
      /\ (pc[n] = "await_task" /\ Len(batchOut[n]) < Len(finished[n])) =>
           ENABLED EmitNext(n)

\* The second task of the list finished first and its record is out while
\* the first task is still pending.
C2_Witness ==
    \E n \in NodeIds :
      /\ Len(tasks[n]) = 2
      /\ tasks[n][1].st = "pending"
      /\ Len(batchOut[n]) = 1
      /\ batchOut[n][1].task = 2
      /\ batchOut[n][1].rec.kind = "http"

\* C3: a probe task that raises yields exactly one record, of kind "error"
\* and status "error", with error "task_exception:<type>" and the message;
\* the records of the other tasks of the batch are emitted all the same,
\* the loop goes on to its sleep, and neither the loop nor the process ends.
C3_TaskExceptionIsolated ==
    \A n \in NodeIds :
      LET name == node_checks[n].node_name IN
      /\ pc[n] # "failed"
      /\ mainPc = "run_until_complete"
      /\ \A i \in DOMAIN tasks[n] :
           LET task == tasks[n][i]
               handed == task.st # "pending" /\ i \notin Range(doneQ[n])
           IN
           /\ handed => Cardinality(RecordsOf(n, i)) = 1
           /\ \A j \in RecordsOf(n, i) :
                LET rec == batchOut[n][j].rec IN
                IF task.st = "exception"
                THEN /\ rec.kind = "error"
                     /\ rec.status = "error"
                     /\ rec.error = <<"task_exception:", task.exception.type>>
                     /\ rec.detail = task.exception.detail
                     /\ rec.node = name
                ELSE /\ task.st = "result"
                     /\ rec.kind = task.result.kind
                     /\ rec.status = task.result.status
                     /\ rec.name = task.result.name
      /\ (pc[n] = "await_task" /\ doneQ[n] # <<>>) => ENABLED EmitNext(n)
      /\ (pc[n] = "await_task" /\ doneQ[n] = <<>>) =>
           \E i \in DOMAIN tasks[n] : tasks[n][i].st = "pending"
      /\ pc[n] = "sleeping" => ENABLED SleepElapsed(n)
      /\ pc[n] \in {"created", "ready"} => ENABLED BeginCycle(n)

\* The ping task raised first, the http task finished after it; both records
\* are out and the loop sleeps.
C3_Witness ==
    \E n \in NodeIds :
      /\ pc[n] = "sleeping"
      /\ Len(tasks[n]) = 2
      /\ tasks[n][1].st = "exception"
      /\ Len(batchOut[n]) = 2
      /\ batchOut[n][1].rec.kind = "error"
      /\ batchOut[n][1].rec.error = <<"task_exception:", "FileNotFoundError">>
      /\ batchOut[n][2].rec.kind = "http"
      /\ batchOut[n][2].rec.status = "ok"

\* C4: node loops are independent.  With the event loop fair and the probes
\* of node 2 finishing, node 2 begins cycles again and again, whatever the
\* probes of node 1 do, also when one of them never finishes.
C4_NodeLoopsIndependent == []<><<BeginCycle(2)>>_vars

\* Node 2 has emitted its batch and sleeps while every probe of the batch of
\* node 1 is still pending.
C4_Witness ==
    /\ pc[1] = "await_task"
    /\ \A i \in DOMAIN tasks[1] : tasks[1][i].st = "pending"
    /\ Len(tasks[1]) = 2
    /\ pc[2] = "sleeping"
    /\ Len(batchOut[2]) = 2

\* The probe tasks of node n that are outstanding.
PendingTasks(n) == {i \in DOMAIN tasks[n] : tasks[n][i].st = "pending"}

\* C17: a node with N probes never has more than N probe tasks outstanding:
\* a batch holds N tasks, and while any of them is pending the loop neither
\* sleeps nor can begin a cycle; a cycle begins only from the start of the
\* loop or after the sleep has elapsed.
C17_AtMostOneBatchOutstanding ==
    \A n \in NodeIds :
      LET N == NumProbes(node_checks[n]) IN
      /\ Len(tasks[n]) \in {0, N}
      /\ Cardinality(PendingTasks(n)) <= N
      /\ pc[n] \in {"created", "sleeping", "ready"} => PendingTasks(n) = {}
      /\ PendingTasks(n) # {} => pc[n] = "await_task"
      /\ ENABLED BeginCycle(n) =>
           /\ pc[n] \in {"created", "ready"}
           /\ PendingTasks(n) = {}
      /\ ENABLED SleepElapsed(n) => PendingTasks(n) = {}

\* The sleep of a node with two probes has elapsed: both tasks of the batch
\* are done, both records are out, and the next cycle can begin.
C17_Witness ==
    \E n \in NodeIds :
      /\ pc[n] = "ready"
      /\ Len(tasks[n]) = 2
      /\ PendingTasks(n) = {}
      /\ Len(batchOut[n]) = 2
      /\ ENABLED BeginCycle(n)

\* C18: while a probe of a node has not finished (a ping that hangs never
\* does), the node's loop neither sleeps nor begins another cycle; and the
\* finished probes of the batch do not wait for it: a queue of finished
\* tasks is always emptied, each task leaving it as its record is emitted.
C18_HungProbeStallsOnlyItsBatch ==
    /\ [](\A n \in NodeIds :
            PendingTasks(n) # {} =>
              /\ pc[n] = "await_task"
              /\ ~ENABLED BeginCycle(n)
              /\ ~ENABLED SleepElapsed(n))
    /\ [](\A n \in NodeIds :
            Range(finished[n]) = Range(EmittedTasks(n)) \cup Range(doneQ[n]))
    /\ \A n \in NodeIds : (doneQ[n] # <<>>) ~> (doneQ[n] = <<>>)

\* The ping of node 1 is still running while the record of its http probe,
\* which finished, is out; the loop waits.
C18_Witness ==
    /\ Len(tasks[1]) = 2
    /\ IsPing(node_checks[1], 1)
    /\ PendingTasks(1) = {1}
    /\ pc[1] = "await_task"
    /\ doneQ[1] = <<>>
    /\ Len(batchOut[1]) = 1
    /\ batchOut[1][1].task = 2
    /\ ~ENABLED EmitNext(1)

\* C21: a node loop runs for ever.  When every probe of every batch
\* finishes and no loop is cancelled, each loop begins cycles again and
\* again and never ends, the loop of a node with no probes included, which
\* goes from an empty batch to its sleep and back.
C21_NodeLoopRunsForever ==
    /\ []<><<BeginCycle(1)>>_vars
    /\ []<><<BeginCycle(2)>>_vars
    /\ [](\A n \in NodeIds :
            /\ pc[n] \in {"created", "await_task", "sleeping", "ready"}
            /\ NumProbes(node_checks[n]) = 0 => pc[n] # "await_task")

\* A node with no probes has gone through an empty batch and its sleep and
\* is about to begin the next cycle, while the other node, with two probes,
\* sleeps after a batch in which its ping raised.
C21_Witness ==
    \E n \in NodeIds, m \in NodeIds :
      /\ NumProbes(node_checks[n]) = 0
      /\ pc[n] = "ready"
      /\ batchOut[n] = <<>>
      /\ ENABLED BeginCycle(n)
      /\ NumProbes(node_checks[m]) = 2
      /\ pc[m] = "sleeping"
      /\ tasks[m][1].st = "exception"

----------------------------------------------------------------------------
(* Claims about the result emitter *)

\* What the probe task behind an emitted record handed to log_record.
RawRecord(n, j) ==
    LET task == tasks[n][batchOut[n][j].task] IN
    IF task.st = "result" THEN task.result
    ELSE TaskExceptionRecord(task.exception)

\* C19: an emitted record holds every field of the raw record with its
\* value, the ping record's host and the http record's url among them, and
\* on top instance_id, instance_role and node.
C19_LogRecordOnlyAdds ==
    \A n \in NodeIds : \A j \in DOMAIN batchOut[n] :
      LET raw == RawRecord(n, j)
          rec == batchOut[n][j].rec
      IN
      /\ \A f \in DOMAIN raw : f \in DOMAIN rec /\ rec[f] = raw[f]
      /\ rec.instance_id = INSTANCE_ID
      /\ rec.instance_role = INSTANCE_ROLE
      /\ rec.node = node_checks[n].node_name

\* The part of C19 that holds of the code: every field but "host" is kept,
\* and "host" is the machine's hostname in every emitted record.
LogRecordKeepsAllButHost ==
    \A n \in NodeIds : \A j \in DOMAIN batchOut[n] :
      LET raw == RawRecord(n, j)
          rec == batchOut[n][j].rec
      IN
      /\ \A f \in DOMAIN raw \ {"host"} : f \in DOMAIN rec /\ rec[f] = raw[f]
      /\ DOMAIN rec = DOMAIN raw \cup {"instance_id", "instance_role", "node", "host"}
      /\ rec.host = HOSTNAME

\* The status of a record is "ok" or "error", and the record has an "error"
\* field exactly when its status is "error".
ErrorIffStatusError(rec) ==
    /\ rec.status \in {"ok", "error"}
    /\ ("error" \in DOMAIN rec) <=> (rec.status = "error")

\* What log_record prints for a record an executor returned.
Emitted(record) == log_record(record, INSTANCE_ID, INSTANCE_ROLE, <<"edge-1">>)

\* C22: every record the checker emits, be it a ping, http, accepted-error,
\* task_exception or config record, has status "ok" or "error" and an
\* "error" field iff the status is "error".
C22_ErrorFieldIffStatusError ==
    /\ \A n \in DOMAIN batchOut : \A j \in DOMAIN batchOut[n] :
         ErrorIffStatusError(batchOut[n][j].rec)
    /\ \A j \in DOMAIN mainOut : ErrorIffStatusError(mainOut[j])
    /\ httpCall.pc = "returned" => ErrorIffStatusError(Emitted(httpCall.record))
    /\ pingCall.pc = "returned" => ErrorIffStatusError(Emitted(pingCall.record))

\* One batch with a task_exception record (the ping raised) and an
\* accepted-error record (the request was refused, as the probe allows).
C22_Witness ==
    \E n \in DOMAIN batchOut :
      /\ Len(batchOut[n]) = 2
      /\ \E j \in 1..2 :
           /\ batchOut[n][j].rec.kind = "error"
           /\ batchOut[n][j].rec.error = <<"task_exception:", "FileNotFoundError">>
      /\ \E j \in 1..2 :
           /\ batchOut[n][j].rec.kind = "http"
           /\ batchOut[n][j].rec.status = "ok"
           /\ "accepted_error" \in DOMAIN batchOut[n][j].rec
           /\ "error" \notin DOMAIN batchOut[n][j].rec

----------------------------------------------------------------------------
(* Claims about the config materialiser *)

\* The entry the generator handled last, as load_yaml parsed it.
Loaded == LoadNode(node, environ)

\* The address of the entry a NodeChecks was yielded for.
SourceAddress(t) == NodeAddress(LoadNode(t.src, environ))

\* The document a NodeChecks was made from: the override when it is in
\* effect, else the file of the entry's profile.
SourceDoc(t) ==
    IF UsesOverride(disk) THEN disk.template.doc
    ELSE disk.profiles[ProfileName(t.src)].doc

\* What the text of a profile stands for on a node: ${ADDRESS} is the
\* node's address, any other ${NAME} is the environment's value, if set.
RECURSIVE BoundText(_, _, _)
BoundText(text, address, env) ==
    IF text = <<>> THEN <<>>
    ELSE (IF Head(text) = ADDRESS_PH THEN address
          ELSE IF Head(text) = NETWORKNODE_IP_PH /\ env.NETWORKNODE_IP.has
               THEN env.NETWORKNODE_IP.v
          ELSE <<Head(text)>>)
         \o BoundText(Tail(text), address, env)

\* Every ping host and http url of the NodeChecks is a host or url of the
\* source document with the node's own address for ${ADDRESS}.
UsesOwnAddress(t) ==
    LET a == SourceAddress(t)
        doc == SourceDoc(t)
    IN
    /\ \A i \in DOMAIN t.checks.ping :
         \E e \in Range(doc.ping) :
           t.checks.ping[i].host = Or(BoundText(e.host, a, environ), a)
    /\ \A i \in DOMAIN t.checks.http :
         \E e \in Range(doc.http) :
           t.checks.http[i].url = BoundText(e.url, a, environ)

NoResidualPlaceholder(t) ==
    /\ \A i \in DOMAIN t.checks.ping : ADDRESS_PH \notin Range(t.checks.ping[i].host)
    /\ \A i \in DOMAIN t.checks.http : ADDRESS_PH \notin Range(t.checks.http[i].url)

\* C5: every NodeChecks that materialise_checks yields comes from an entry
\* with a name and an address, carries that node's own address wherever the
\* profile says ${ADDRESS}, and holds no ${ADDRESS} any more, for every
\* profile and every environment, one that defines ADDRESS included.
C5_OwnAddressSubstituted ==
    \A k \in DOMAIN loopTasks :
      /\ ~SkipsNode(LoadNode(loopTasks[k].src, environ))
      /\ UsesOwnAddress(loopTasks[k])
      /\ NoResidualPlaceholder(loopTasks[k])

\* C6 as stated: an entry that lacks a name (no name and no id, or blanks)
\* or an address (no address and no host, or blanks) yields no NodeChecks.
NameMissing(n) == ~Truthy(Strip(Or(n.name, n.id)))
AddressMissing(n) == ~Truthy(Strip(Or(n.address, n.host)))

C6_MissingNameOrAddressSkipped ==
    \A k \in DOMAIN loopTasks :
      LET n == LoadNode(loopTasks[k].src, environ) IN
      ~NameMissing(n) /\ ~AddressMissing(n)

\* C6 as amended: an entry without an address (no address and no host, or
\* blanks), or whose name is there but blank, yields no NodeChecks; an entry
\* with neither name nor id is not skipped for that: with an address it is
\* materialised under the name "node".
NameBlank(n) == Truthy(Or(n.name, n.id)) /\ ~Truthy(Strip(Or(n.name, n.id)))
NameAbsent(n) == ~Truthy(n.name) /\ ~Truthy(n.id)

C6_MissingAddressOrBlankNameSkipped ==
    /\ lastYield # "none" =>
         /\ (AddressMissing(Loaded) \/ NameBlank(Loaded)) <=> lastYield = "skipped"
         /\ (NameAbsent(Loaded) /\ lastYield = "yielded") =>
              loopTasks[Len(loopTasks)].checks.node_name = <<"node">>
    /\ \A k \in DOMAIN loopTasks :
         LET n == LoadNode(loopTasks[k].src, environ) IN
         ~AddressMissing(n) /\ ~NameBlank(n)

\* After a node was yielded, an entry with a name but a blank address and a
\* host was skipped.
C6_Witness ==
    /\ lastYield = "skipped"
    /\ loopTasks # <<>>
    /\ node.name # <<>>
    /\ node.address = <<WS>>
    /\ node.host # <<>>
    /\ nodeCount = 2

\* C7: a valid node whose named profile file is not there (and no override
\* is in effect) is materialised with no probes, and the process goes on.
C7_MissingProfileIsEmpty ==
    (/\ lastYield # "none"
     /\ ~SkipsNode(Loaded)
     /\ ~UsesOverride(disk)
     /\ ~disk.profiles[ProfileName(Loaded)].exists)
    => /\ mainPc # "crashed"
       /\ lastYield = "yielded"
       /\ loopTasks[Len(loopTasks)].checks.ping = <<>>
       /\ loopTasks[Len(loopTasks)].checks.http = <<>>

\* C8: with no override in effect every profile file is read at most once,
\* and every NodeChecks made from the cached profile has its own node's
\* address wherever the profile says ${ADDRESS}.
C8_CachedProfileOwnAddress ==
    ~UsesOverride(disk) =>
      /\ \A p \in ProfileNames : reads[p] <= 1
      /\ reads.template = 0
      /\ \A k \in DOMAIN loopTasks : UsesOwnAddress(loopTasks[k])

\* The half of C8 that holds of the code: one read per profile name.
ProfileReadAtMostOnce ==
    ~UsesOverride(disk) =>
      /\ \A p \in ProfileNames : reads[p] <= 1
      /\ reads.template = 0

----------------------------------------------------------------------------
(* Claims about main and the inventory *)

\* C12: without an inventory main writes exactly one record, of kind
\* "config" and status "error", then pauses in time.sleep(poll_interval),
\* then returns; it never goes through an inventory entry, reads no profile,
\* creates no node loop and no probe task.
C12_MissingInventoryIsFatal ==
    ~disk.inventory.exists =>
      /\ mainPc \in {"start", "time_sleep", "returned"}
      /\ mainPc = "start" => (mainOut = <<>> /\ ENABLED CheckInventory)
      /\ mainPc \in {"time_sleep", "returned"} =>
           /\ Len(mainOut) = 1
           /\ mainOut[1].kind = "config"
           /\ mainOut[1].status = "error"
           /\ mainOut[1].error = <<"inventory_missing">>
           /\ mainOut[1].config_path = INVENTORY_PATH
           /\ mainOut[1].node = <<"inventory">>
      /\ mainPc = "time_sleep" => ENABLED PauseElapsed
      /\ nodeCount = 0
      /\ nodes = <<>>
      /\ reads = NoReads
      /\ loopTasks = <<>>
      /\ node_checks = <<>>
      /\ tasks = <<>>

\* main has returned after the one config record.
C12_Witness ==
    /\ ~disk.inventory.exists
    /\ mainPc = "returned"
    /\ Len(mainOut) = 1
    /\ mainOut[1].kind = "config"

\* C13: with an inventory, and no cancellation delivered (these runs have
\* none), main never returns, whatever the inventory and the profiles hold.
C13_RunsUntilCancelled ==
    disk.inventory.exists => mainPc # "returned"

\* The entries gone through that the skip test lets pass.
ValidEntries ==
    SelectSeq(nodes, LAMBDA raw : ~SkipsNode(LoadNode(raw, environ)))

YieldedEntries == [k \in DOMAIN loopTasks |-> loopTasks[k].src]

\* C16: the NodeChecks are yielded in inventory order, one per valid entry
\* gone through, each under that entry's name, and main has one loop task
\* per NodeChecks.
C16_YieldedInInventoryOrder ==
    /\ YieldedEntries = ValidEntries
    /\ \A k \in DOMAIN loopTasks :
         loopTasks[k].checks.node_name = NodeName(LoadNode(loopTasks[k].src, environ))

\* The part of C16 that holds of the code: the order is the inventory's, and
\* only the entry whose profile file is not there, on which main ends, has
\* no NodeChecks.
InventoryOrderUntilCrash ==
    /\ \A k \in DOMAIN loopTasks :
         loopTasks[k].checks.node_name = NodeName(LoadNode(loopTasks[k].src, environ))
    /\ IF mainPc = "crashed"
       THEN /\ ValidEntries = Append(YieldedEntries, node)
            /\ ~disk.profiles[ProfileName(Loaded)].exists
       ELSE YieldedEntries = ValidEntries

\* The addresses of the other nodes materialised in the same run.
OtherAddresses(k) ==
    {SourceAddress(loopTasks[j]) : j \in DOMAIN loopTasks}
    \ {SourceAddress(loopTasks[k])}

\* C20: with an override in effect every valid entry is materialised from
\* the override, which is read once per valid entry and binds ${ADDRESS} to
\* that entry's address, also when the environment defines ADDRESS; no
\* profile file is read (so none is missed), and no NodeChecks holds the
\* address of another node.
C20_OverrideBindsOwnAddress ==
    UsesOverride(disk) =>
      /\ mainPc # "crashed"
      /\ \A p \in ProfileNames : reads[p] = 0 /\ ~profiles_cache[p].has
      /\ reads.template = Len(ValidEntries)
      /\ Len(loopTasks) = Len(ValidEntries)
      /\ \A k \in DOMAIN loopTasks :
           /\ UsesOwnAddress(loopTasks[k])
           /\ NoResidualPlaceholder(loopTasks[k])
           /\ \A a \in OtherAddresses(k) :
                /\ \A i \in DOMAIN loopTasks[k].checks.ping :
                     ~Contains(loopTasks[k].checks.ping[i].host, a)
                /\ \A i \in DOMAIN loopTasks[k].checks.http :
                     ~Contains(loopTasks[k].checks.http[i].url, a)

\* Two nodes with different addresses materialised from the override, with
\* ADDRESS defined in the environment and no default profile on disk.
C20_Witness ==
    /\ UsesOverride(disk)
    /\ environ.ADDRESS.has
    /\ ~disk.profiles["default"].exists
    /\ Len(loopTasks) = 2
    /\ SourceAddress(loopTasks[1]) # SourceAddress(loopTasks[2])
    /\ reads.template = 2
    /\ loopTasks[1].checks.http # <<>>
    /\ Contains(loopTasks[1].checks.http[1].url, SourceAddress(loopTasks[1]))

----------------------------------------------------------------------------
(* Claims about run_http *)

\* C9: for a completed response the record is an error "unexpected_status:
\* <code>" iff a status is expected and is not the actual one; else an error
\* "unexpected_body" iff a text is expected and is not in the body; else ok.
\* When both expectations fail the status mismatch is what is reported.
C9_ResponseClassification ==
    (httpCall.pc = "returned" /\ ~httpCall.outcome.raised) =>
      LET check == httpCall.check
          code == httpCall.outcome.status_code
          record == httpCall.record
          statusFails == check.expect_status.has /\ check.expect_status.v # code
          textFails == /\ check.expect_text.has
                       /\ ~Contains(httpCall.outcome.text, check.expect_text.v)
      IN
      /\ record.kind = "http"
      /\ IF statusFails
         THEN /\ record.status = "error"
              /\ "error" \in DOMAIN record
              /\ record.error = <<"unexpected_status:", IntText(code)>>
         ELSE IF textFails
         THEN /\ record.status = "error"
              /\ "error" \in DOMAIN record
              /\ record.error = <<"unexpected_body">>
         ELSE /\ record.status = "ok"
              /\ "error" \notin DOMAIN record

\* Status 404 where 200 is expected and a body without the expected text:
\* the record reports the status.
C9_Witness ==
    /\ httpCall.pc = "returned"
    /\ ~httpCall.outcome.raised
    /\ httpCall.check.expect_status = Some(200)
    /\ httpCall.outcome.status_code = 404
    /\ httpCall.check.expect_text = Some(<<"ready">>)
    /\ httpCall.outcome.text = <<"down">>
    /\ httpCall.record.error = <<"unexpected_status:", "404">>

\* C10: when the request fails, the record is "ok" with the note
\* "accepted_error" and the failure's text iff the probe has an accepted
\* substring (one that is not empty) and the failure's text holds it; else
\* it is an error "exception:<type>" with the text as detail.  Either way
\* run_http returns a record.
C10_RequestFailureClassification ==
    /\ httpCall.pc = "called" => ENABLED HttpReturn
    /\ (httpCall.pc = "returned" /\ httpCall.outcome.raised) =>
         LET check == httpCall.check
             exc == httpCall.outcome.exc
             record == httpCall.record
             accepted == /\ check.accept_error_substring.has
                         /\ check.accept_error_substring.v # <<>>
                         /\ Contains(exc.detail, check.accept_error_substring.v)
         IN
         /\ record.kind = "http"
         /\ record.url = check.url
         /\ IF accepted
            THEN /\ record.status = "ok"
                 /\ "error" \notin DOMAIN record
                 /\ record.note = "accepted_error"
                 /\ record.accepted_error = exc.detail
            ELSE /\ record.status = "error"
                 /\ record.error = <<"exception:", exc.type>>
                 /\ record.detail = exc.detail

\* "Connection refused" on a probe that accepts "refused".
C10_Witness ==
    /\ httpCall.pc = "returned"
    /\ httpCall.outcome.raised
    /\ httpCall.outcome.exc.detail = <<"Connection", WS, "refused">>
    /\ httpCall.check.accept_error_substring = Some(<<"refused">>)
    /\ httpCall.record.status = "ok"
    /\ httpCall.record.note = "accepted_error"

----------------------------------------------------------------------------
(* Claims about run_ping *)

\* C11: for every ping process that exited, the record's status is "ok" iff
\* the exit code is 0; for any other exit code it is "error" with error
\* "ping_failed"; the record's return_code is the exit code as it is; and
\* the process was started exactly once, on the check's host.
C11_PingClassification ==
    /\ pingCall.pc \in {"communicate", "returned"} =>
         pingCall.spawned = <<pingCall.check.host>>
    /\ pingCall.pc = "communicate" => ENABLED PingExit
    /\ pingCall.pc = "returned" =>
         LET record == pingCall.record
             code == pingCall.proc.returncode
         IN
         /\ record.kind = "ping"
         /\ record.host = pingCall.check.host
         /\ record.return_code = code
         /\ record.status = "ok" <=> code = 0
         /\ IF code = 0
            THEN "error" \notin DOMAIN record
            ELSE /\ record.status = "error"
                 /\ "error" \in DOMAIN record
                 /\ record.error = <<"ping_failed">>

\* A ping that a signal killed: exit code -9, reported as ping_failed.
C11_Witness ==
    /\ pingCall.pc = "returned"
    /\ pingCall.proc.returncode = -9
    /\ pingCall.record.status = "error"
    /\ pingCall.record.error = <<"ping_failed">>
    /\ pingCall.record.return_code = -9
    /\ Len(pingCall.spawned) = 1

----------------------------------------------------------------------------
(* Claims about shutdown *)

\* C14: when a cancelled node loop ends, the record of every probe task of
\* its batch that had finished when the loop was cancelled has been emitted.
C14_CancelKeepsProducedResults ==
    \A n \in NodeIds :
      pc[n] = "cancelled" => atCancel[n].finished \subseteq Range(EmittedTasks(n))

\* The part of C15 that holds of the code: at exit every loop task is
\* cancelled.
LoopTasksCancelledAtClose ==
    mainPc = "closed" => \A n \in NodeIds : pc[n] = "cancelled"

\* C15: after the interrupt every loop task is cancelled, and when the
\* event loop is closed and main returns no probe task is still pending.
C15_NoProbePendingAtExit ==
    mainPc = "closed" =>
      \A n \in NodeIds :
        /\ pc[n] = "cancelled"
        /\ \A i \in DOMAIN tasks[n] : tasks[n][i].st # "pending"

----------------------------------------------------------------------------
(* Claims about the hub poller *)

\* The lines of the current cycle that are about hub h.
HubLines(h) == SelectSeq(hubOut, LAMBDA rec : "hub" \in DOMAIN rec /\ rec.hub = h)

IsErrorLine(rec) == "level" \in DOMAIN rec /\ rec.level = "error"

\* The part of C23 about failed fetches: at most three attempts per hub and
\* cycle; a hub whose three attempts failed has exactly one line, an error
\* record, in the cycle; and no hub waits for another to be polled.
FetchFailureIsolated ==
    \A h \in DOMAIN hubPoll :
      /\ hubPoll[h].attempts <= stop_after_attempt
      /\ hubPoll[h].st = "failed" =>
           /\ hubPoll[h].attempts = stop_after_attempt
           /\ Len(HubLines(h)) = 1
           /\ IsErrorLine(HubLines(h)[1])
      /\ hubPoll[h].st = "reported" =>
           \A j \in DOMAIN HubLines(h) : ~IsErrorLine(HubLines(h)[j])
      /\ (hubPc = "gather" /\ hubPoll[h].st = "fetching") => ENABLED FetchAttempt(h)

\* C23: in each cycle fetch_nodes is attempted at most three times per hub;
\* a hub whose attempts all failed gets exactly one error record and no
\* node record; the other hubs are polled and reported all the same; and
\* once every hub of the cycle has finished the loop goes on to its sleep
\* and to the next cycle, always.
C23_FailingHubNeverStopsTheLoop ==
    /\ FetchFailureIsolated
    /\ hubPc # "raised"
    /\ (hubPc = "gather" /\ \A h \in hubs : hubPoll[h].st # "fetching") =>
         ENABLED GatherDone
    /\ hubPc = "sleeping" => ENABLED HubSleepElapsed

====
